---- MODULE Spec2Model ----
(***************************************************************************)
(* Model of src/src/date.rs: the hybrid Julian/Gregorian date utilities.   *)
(* Every public function of `impl Date` is an action that draws its        *)
(* arguments from bounded sets and records what the call produced: a       *)
(* returned value, a returned Err(String), or a panic.  Rust integers keep *)
(* their width: u32 values are pairs of 16-bit halves, i32 arithmetic is   *)
(* checked against the i32 range.  An arithmetic overflow panics when the  *)
(* crate is built with overflow checks (the dev/test profile) and wraps    *)
(* otherwise (the release profile); the build is chosen in Init.           *)
(***************************************************************************)
EXTENDS Integers, Sequences, FiniteSets, TLC

VARIABLES
    overflow_checks,  \* TRUE: dev/test profile, FALSE: release profile
    op,               \* the function called last
    first,            \* its Date argument (the first one of days_between_dates)
    last,             \* the second Date argument of days_between_dates
    year,             \* the i32 argument of is_leap / year_days
    res,              \* what the call produced
    days              \* days_between_dates: the local `days` after the year loop

vars == <<overflow_checks, op, first, last, year, res, days>>

----------------------------------------------------------------------------
(* Bounds of the model *)

\* is_leap and year_days are called on every year of -LeapSpan..LeapSpan
LeapSpan == 2400
\* years next to the BC/AD boundary: -EraRadius..EraRadius
EraRadius == 1
\* years next to the reform year: 1582-CutRadius..1582+CutRadius
CutRadius == 1
\* 400-year spans start in the years 1582..1582+CycleSpan (and in 2000)
CycleSpan == 2
\* months passed to is_valid / day_of_year: 0..MaxMonthIn
MaxMonthIn == 13
\* days passed to is_valid / day_of_year: 0..MaxDayIn
MaxDayIn == 32

----------------------------------------------------------------------------
(* Rust integer arithmetic *)

Half == 2^16
MaxI32 == (Half \div 2 - 1) * Half + (Half - 1)
MinI32 == -MaxI32 - 1

\* a result of a checked operation: the wrapped value and whether it overflowed
Arith(v, o) == [v |-> v, o |-> o]

\* u32 value n (0 <= n < 2^31) as two 16-bit halves
U32(n) == [hi |-> n \div Half, lo |-> n % Half]

\* u32 - u32
U32Sub(x, y) ==
    LET borrow == x.lo < y.lo
        lo == x.lo - y.lo + (IF borrow THEN Half ELSE 0)
        h  == x.hi - y.hi - (IF borrow THEN 1 ELSE 0)
    IN  Arith([hi |-> IF h < 0 THEN h + Half ELSE h, lo |-> lo], h < 0)

\* u32 + u32
U32Add(x, y) ==
    LET l == x.lo + y.lo
        carry == l >= Half
        h == x.hi + y.hi + (IF carry THEN 1 ELSE 0)
    IN  Arith([hi |-> IF h >= Half THEN h - Half ELSE h,
               lo |-> IF carry THEN l - Half ELSE l], h >= Half)

\* `x as i32` of a u32: reinterpretation of the 32 bits
AsI32(x) ==
    IF x.hi >= Half \div 2 THEN (x.hi - Half) * Half + x.lo
    ELSE x.hi * Half + x.lo

\* i32 + i32
I32Add(x, y) ==
    IF y > 0 /\ x > MaxI32 - y
        THEN Arith((x - MaxI32 - 1) + (y - MaxI32 - 1), TRUE)
    ELSE IF y < 0 /\ x < MinI32 - y
        THEN Arith((x + MaxI32 + 1) + (y + MaxI32 + 1), TRUE)
    ELSE Arith(x + y, FALSE)

\* -x of an i32
I32Neg(x) == IF x = MinI32 THEN Arith(MinI32, TRUE) ELSE Arith(-x, FALSE)

\* i32 - i32
I32Sub(x, y) ==
    IF y = MinI32
        THEN (IF x >= 0 THEN Arith((x - MaxI32) - 1, TRUE)
              ELSE Arith((x + MaxI32) + 1, FALSE))
    ELSE I32Add(x, -y)

\* i32 % i32 for a positive divisor: the remainder has the sign of x
Rem(x, n) == IF x >= 0 THEN x % n ELSE -((n - (x % n)) % n)

----------------------------------------------------------------------------
(* Values *)

Date(y, m, d) == [year |-> y, month |-> m, day |-> d]

\* what a call produced
Ok(v) == [kind |-> "ok", val |-> v, flag |-> FALSE, msg |-> "", text |-> <<>>, wrapped |-> FALSE]
OkWrapped(v) == [kind |-> "ok", val |-> v, flag |-> FALSE, msg |-> "", text |-> <<>>, wrapped |-> TRUE]
Bool(b) == [kind |-> "bool", val |-> 0, flag |-> b, msg |-> "", text |-> <<>>, wrapped |-> FALSE]
Err(msg, text) == [kind |-> "err", val |-> 0, flag |-> FALSE, msg |-> msg, text |-> text, wrapped |-> FALSE]
Panic(why) == [kind |-> "panic", val |-> 0, flag |-> FALSE, msg |-> why, text |-> <<>>, wrapped |-> FALSE]
None == [kind |-> "none", val |-> 0, flag |-> FALSE, msg |-> "", text |-> <<>>, wrapped |-> FALSE]

----------------------------------------------------------------------------
(* Tables *)

GREGORIAN_YEAR == 1582
MONTH_DAYS == <<31, 28, 31, 30, 31, 30, 31, 31, 30, 31, 30, 31>>
RUNNING_DAYS_PER_MONTH == <<0, 31, 59, 90, 120, 151, 181, 212, 243, 273, 304, 334>>
MONTHS == <<"January", "February", "March", "April", "May", "June", "July",
            "August", "September", "October", "November", "December">>

----------------------------------------------------------------------------
(* impl Display for Date *)

\* `TABLE[month as usize - 1]` for a table of 12 entries: the index to read
\* (1-based here), or the panic of the subtraction or of the bounds check
index(month, checks) ==
    IF month < 1 /\ checks THEN Panic("attempt to subtract with overflow")
    ELSE IF month < 1 \/ month > 12 THEN Panic("index out of bounds")
    ELSE Ok(month)

\* the text as <<month name, day, abs(year), era>>
fmt(self, checks) ==
    LET era == IF self.year < 0 THEN " BC" ELSE ""
    IN  IF index(self.month, checks).kind = "panic" THEN index(self.month, checks)
        ELSE LET abs == IF self.year < 0 THEN I32Neg(self.year)
                        ELSE Arith(self.year, FALSE)
             IN  IF abs.o /\ checks THEN Panic("attempt to negate with overflow")
                 ELSE [Ok(0) EXCEPT !.text =
                          <<MONTHS[self.month], self.day, abs.v, era>>]

----------------------------------------------------------------------------
(* impl Date *)

\* is_leap without the shift of the years before 1
is_leap_unshifted(y0) ==
    IF y0 < GREGORIAN_YEAR THEN Rem(y0, 4) = 0
    ELSE Rem(y0, 400) = 0 \/ (Rem(y0, 4) = 0 /\ Rem(y0, 100) # 0)

\* is_leap with the Julian rule for every year
is_leap_julian(y0) ==
    LET y == IF y0 < 0 THEN y0 + 1 ELSE y0
    IN  Rem(y, 4) = 0

is_leap(y0) ==
    LET y == IF y0 < 0 THEN y0 + 1 ELSE y0
    IN  IF y < GREGORIAN_YEAR THEN Rem(y, 4) = 0
        ELSE Rem(y, 400) = 0 \/ (Rem(y, 4) = 0 /\ Rem(y, 100) # 0)

year_days(y) ==
    IF y = 0 THEN 0
    ELSE IF y = GREGORIAN_YEAR THEN 355
    ELSE 365 + (IF is_leap(y) THEN 1 ELSE 0)

is_valid(self, checks) ==
    IF self.year = 0 THEN Err("Year 0 does not exist", <<>>)
    ELSE IF self.month < 1 \/ self.month > 12 THEN Err("Invalid month", <<>>)
    ELSE IF self.year = GREGORIAN_YEAR /\ self.month = 10
            /\ self.day > 4 /\ self.day < 14
        THEN LET s == fmt(self, checks)
             IN  IF s.kind = "panic" THEN s ELSE Err(" does not exist", s.text)
    ELSE LET m == MONTH_DAYS[self.month]
                  + (IF self.month = 2 /\ is_leap(self.year) THEN 1 ELSE 0)
         IN  IF self.day > 0 /\ self.day <= m THEN Ok(0)
             ELSE LET s == fmt(self, checks)
                  IN  IF s.kind = "panic" THEN s ELSE Err(": Invalid day", s.text)

\* the outcome of a checked operation under the build's overflow behaviour
Lift(a, checks, why) ==
    IF ~a.o THEN Ok(a.v)
    ELSE IF checks THEN Panic(why)
    ELSE OkWrapped(a.v)

\* r, also marked as wrapped when an earlier step wrapped
Mark(q, w) == [q EXCEPT !.wrapped = q.wrapped \/ w]

\* val is the u32 returned, as 16-bit halves
month_days(month, y, checks) ==
    LET bias0 == U32(IF month > 2 /\ is_leap(y) THEN 1 ELSE 0)
        bias  == IF y = GREGORIAN_YEAR /\ month > 9
                     THEN Lift(U32Sub(bias0, U32(10)), checks,
                               "attempt to subtract with overflow")
                 ELSE Ok(bias0)
    IN  IF bias.kind = "panic" THEN bias
        ELSE IF index(month, checks).kind = "panic" THEN index(month, checks)
        ELSE LET sum == Lift(U32Add(U32(RUNNING_DAYS_PER_MONTH[month]), bias.val),
                             checks, "attempt to add with overflow")
             IN  IF sum.kind = "panic" THEN sum ELSE Mark(sum, bias.wrapped)

day_of_year(self, checks) ==
    LET md == month_days(self.month, self.year, checks)
    IN  IF md.kind = "panic" THEN md
        ELSE
        LET days0 == AsI32(md.val)
            days1 == IF self.year = GREGORIAN_YEAR
                        /\ (self.month > 10 \/ (self.month = 10 /\ self.day > 13))
                     THEN Lift(I32Sub(days0, 10), checks,
                               "attempt to subtract with overflow")
                     ELSE Ok(days0)
        IN  IF days1.kind = "panic" THEN days1
            ELSE
            LET r == Lift(I32Add(days1.val, self.day), checks,
                          "attempt to add with overflow")
            IN  IF r.kind = "panic" THEN r
                ELSE Mark(r, md.wrapped \/ days1.wrapped)

\* one iteration of `for year in year1..year2 { days += Date::year_days(year) }`,
\* days being acc
loop_body(acc, y, checks) ==
    IF acc.kind = "panic" THEN acc
    ELSE Mark(Lift(I32Add(acc.val, year_days(y)), checks,
                   "attempt to add with overflow"), acc.wrapped)

\* the iterations for y, y+1, ..., year2-1, taken in this order from acc.  The
\* range is cut in two only to bound the depth of the evaluation: the second
\* half starts from what the first half leaves.
RECURSIVE year_loop(_, _, _, _)
year_loop(y, year2, acc, checks) ==
    IF y >= year2 THEN acc
    ELSE IF year2 - y = 1 THEN loop_body(acc, y, checks)
    ELSE LET mid == y + (year2 - y) \div 2
             left == year_loop(y, mid, acc, checks)
         IN  IF left.kind = "panic" THEN left
             ELSE year_loop(mid, year2, left, checks)

\* the loop over the years strictly between the two years
loop_days_strict(d1, d2, checks) ==
    LET year1 == IF d1.year > d2.year THEN d2.year ELSE d1.year
        year2 == IF d1.year > d2.year THEN d1.year ELSE d2.year
    IN  year_loop(year1 + 1, year2, Ok(0), checks)

\* the local `days` of days_between_dates once the loop has ended
loop_days(d1, d2, checks) ==
    LET year1 == IF d1.year > d2.year THEN d2.year ELSE d1.year
        year2 == IF d1.year > d2.year THEN d1.year ELSE d2.year
    IN  year_loop(year1, year2, Ok(0), checks)

\* -days - d1 + d2  or  days - d1 + d2
signed_sum(neg, dd, d1, d2, checks) ==
    LET a == IF neg THEN Lift(I32Neg(dd), checks, "attempt to negate with overflow")
             ELSE Ok(dd)
    IN  IF a.kind = "panic" THEN a
        ELSE
        LET b == Lift(I32Sub(a.val, d1), checks, "attempt to subtract with overflow")
        IN  IF b.kind = "panic" THEN b
            ELSE
            LET c == Lift(I32Add(b.val, d2), checks, "attempt to add with overflow")
            IN  IF c.kind = "panic" THEN c
                ELSE Mark(c, a.wrapped \/ b.wrapped)

\* res: what the call produces; days: the local `days` when the loop has ended
\* (0, its initial value, when the call ends before)
run_days_between_dates(d1, d2, checks) ==
    LET v1 == is_valid(d1, checks)
    IN  IF v1.kind # "ok" THEN [res |-> v1, days |-> 0]
        ELSE
        LET v2 == is_valid(d2, checks)
        IN  IF v2.kind # "ok" THEN [res |-> v2, days |-> 0]
            ELSE
            LET dd == loop_days(d1, d2, checks)
            IN  IF dd.kind = "panic" THEN [res |-> dd, days |-> 0]
                ELSE
                LET o1 == day_of_year(d1, checks)
                IN  IF o1.kind = "panic" THEN [res |-> o1, days |-> dd.val]
                    ELSE
                    LET o2 == day_of_year(d2, checks)
                    IN  IF o2.kind = "panic" THEN [res |-> o2, days |-> dd.val]
                        ELSE [res |-> Mark(signed_sum(d1.year > d2.year, dd.val,
                                                      o1.val, o2.val, checks),
                                           dd.wrapped \/ o1.wrapped \/ o2.wrapped),
                              days |-> dd.val]

days_between_dates(d1, d2, checks) == run_days_between_dates(d1, d2, checks).res

----------------------------------------------------------------------------
(* Arguments of the calls *)

EraYears == (-EraRadius)..EraRadius
CutYears == (GREGORIAN_YEAR - CutRadius)..(GREGORIAN_YEAR + CutRadius)

\* is_valid and day_of_year take every (year, month, day) of this grid
GridYears == EraYears \cup CutYears \cup {MinI32, 1900, 1979, 1980, 2000}
GridDates == {Date(y, m, d) : y \in GridYears, m \in 0..MaxMonthIn, d \in 0..MaxDayIn}

LeapArgs == ((-LeapSpan)..LeapSpan) \cup {MinI32, MaxI32}

\* days_between_dates takes pairs of dates within a few years of each boundary
PairMonths == {1, 2, 3, 9, 10, 12}
PairDays == {1, 4, 5, 14, 15, 29, 30, 31}
DatesOf(years) == {Date(y, m, d) : y \in years, m \in PairMonths, d \in PairDays}
Extremes == {Date(MinI32, 1, 0), Date(MinI32, 10, 32), Date(1, 13, 1), Date(1582, 0, 1)}
Crossing == {Date(-1, 12, 31), Date(1, 1, 1), Date(1582, 10, 4), Date(1582, 10, 15),
             Date(1582, 12, 31), Date(1583, 1, 1)}
Invalids == {Date(0, 1, 1), Date(1979, 2, 29), Date(1582, 10, 11)}
TestPairs == {<<Date(1950, 1, 1), Date(1950, 12, 31)>>,
              <<Date(1980, 1, 1), Date(1981, 1, 1)>>,
              <<Date(1981, 1, 1), Date(1980, 1, 1)>>,
              <<Date(1977, 10, 1), Date(2021, 7, 22)>>,
              <<Date(2000, 1, 1), Date(2400, 1, 1)>>,
              <<Date(1582, 1, 1), Date(1982, 1, 1)>>,
              <<Date(0, 1, 1), Date(1982, 1, 1)>>,
              <<Date(2000, 2, 29), Date(2001, 2, 28)>>}

\* the same month and day 400 years later
Plus400(d) == Date(d.year + 400, d.month, d.day)
CycleYears == (GREGORIAN_YEAR..(GREGORIAN_YEAR + CycleSpan)) \cup {2000}
CycleDays == {1, 15, 28, 29, 30, 31}
CycleDates == {Date(y, m, d) : y \in CycleYears, m \in 1..12, d \in CycleDays}

PairArgs ==
    (DatesOf(EraYears) \X DatesOf(EraYears))
    \cup (DatesOf(CutYears) \X DatesOf(CutYears))
    \cup (Crossing \X Crossing)
    \cup (Extremes \X (Extremes \cup Crossing \cup Invalids))
    \cup ((Crossing \cup Invalids) \X (Extremes \cup Invalids))
    \cup TestPairs
    \cup {<<d, Plus400(d)>> : d \in CycleDates}

----------------------------------------------------------------------------
(* The calls *)

\* a call is made by a caller that holds no earlier result
Call(name, d1, d2, y, r, dd) ==
    /\ op' = name
    /\ first' = d1
    /\ last' = d2
    /\ year' = y
    /\ res' = r
    /\ days' = dd
    /\ UNCHANGED overflow_checks

\* fn main: the two dates it constructs with Date::new
Init ==
    /\ overflow_checks \in BOOLEAN
    /\ op = "new"
    /\ first = Date(2000, 2, 29)
    /\ last = Date(2001, 2, 28)
    /\ year = 2000
    /\ res = None
    /\ days = 0

IsValid ==
    /\ op = "new"
    /\ \E d \in GridDates :
        Call("is_valid", d, d, d.year, is_valid(d, overflow_checks), 0)

IsLeap ==
    /\ op = "new"
    /\ \E y \in LeapArgs :
        Call("is_leap", first, last, y, Bool(is_leap(y)), 0)

YearDays ==
    /\ op = "new"
    /\ \E y \in LeapArgs :
        Call("year_days", first, last, y, Ok(year_days(y)), 0)

DayOfYear ==
    /\ op = "new"
    /\ \E d \in GridDates :
        Call("day_of_year", d, d, d.year, day_of_year(d, overflow_checks), 0)

DaysBetweenDates ==
    /\ op = "new"
    /\ \E p \in PairArgs :
        LET run == run_days_between_dates(p[1], p[2], overflow_checks)
        IN  Call("days_between_dates", p[1], p[2], p[1].year, run.res, run.days)

\* the caller drops the result and is back where fn main starts
Drop ==
    /\ op # "new"
    /\ op' = "new"
    /\ first' = Date(2000, 2, 29)
    /\ last' = Date(2001, 2, 28)
    /\ year' = 2000
    /\ res' = None
    /\ days' = 0
    /\ UNCHANGED overflow_checks

Next == IsValid \/ IsLeap \/ YearDays \/ DayOfYear \/ DaysBetweenDates \/ Drop

Spec == Init /\ [][Next]_vars

----------------------------------------------------------------------------
(* The hybrid calendar, as the claims state it *)

\* the hybrid leap rule on the year line without a year 0
RefLeap(y) ==
    LET a == IF y < 0 THEN y + 1 ELSE y
    IN  IF a < 1582 THEN a % 4 = 0
        ELSE a % 400 = 0 \/ (a % 4 = 0 /\ a % 100 # 0)

RefMonthLen(y, m) ==
    IF m = 2 THEN (IF RefLeap(y) THEN 29 ELSE 28)
    ELSE IF m \in {4, 6, 9, 11} THEN 30
    ELSE 31

\* the ten days dropped by the reform: 1582-10-05 .. 1582-10-14
InGap(d) == d.year = 1582 /\ d.month = 10 /\ d.day \in 5..14

\* d is a date of the hybrid calendar
Exists(d) ==
    /\ d.year # 0
    /\ d.month \in 1..12
    /\ d.day \in 1..RefMonthLen(d.year, d.month)
    /\ ~InGap(d)

\* a is chronologically earlier than b
Before(a, b) ==
    \/ a.year < b.year
    \/ a.year = b.year /\ a.month < b.month
    \/ a.year = b.year /\ a.month = b.month /\ a.day < b.day

\* the number of existing dates d with a < d <= b
CountAfter(a, b) ==
    Cardinality({d \in {Date(y, m, k) : y \in a.year..b.year, m \in 1..12, k \in 1..31} :
                    Exists(d) /\ Before(a, d) /\ ~Before(b, d)})

\* the signed number of calendar days from a to b
TrueDays(a, b) == IF Before(b, a) THEN -CountAfter(b, a) ELSE CountAfter(a, b)

\* the position of d among the existing dates of its year
TrueOrdinal(d) ==
    Cardinality({e \in {Date(d.year, m, k) : m \in 1..12, k \in 1..31} :
                    Exists(e) /\ ~Before(d, e)})

\* both arguments of the last call pass is_valid
BothValid ==
    /\ is_valid(first, overflow_checks).kind = "ok"
    /\ is_valid(last, overflow_checks).kind = "ok"

----------------------------------------------------------------------------
(* Claims *)

\* C1: for all existing dates a and b of the hybrid calendar,
\* days_between_dates(a, b) returns Ok(n), n being the signed number of
\* calendar days from a to b (stated here for dates at most three years apart).
C1_TrueDayCount ==
    (/\ op = "days_between_dates"
     /\ Exists(first) /\ Exists(last)
     /\ first.year - last.year \in -3..3)
    => (res.kind = "ok" /\ res.val = TrueDays(first, last))

\* C2: for all valid dates a and b, days_between_dates(a, b) and
\* days_between_dates(b, a) return numbers that are each other's negation.
C2_Antisymmetry ==
    (op = "days_between_dates" /\ BothValid)
    => LET back == days_between_dates(last, first, overflow_checks)
       IN  res.kind = "ok" /\ back.kind = "ok" /\ res.val = -back.val

\* C3: is_valid rejects every 1582-10-d with 5 <= d <= 14 with the
\* nonexistent-date error, and accepts 1582-10-04 and 1582-10-15.
C3_GapRejected ==
    (op = "is_valid" /\ first.year = 1582 /\ first.month = 10)
    => /\ first.day \in 5..14 => (res.kind = "err" /\ res.msg = " does not exist")
       /\ first.day \in {4, 15} => res.kind = "ok"

\* the outcome C4 gives to (year, month, day)
ExpectedOutcome(d) ==
    IF d.year = 0 THEN "Year 0 does not exist"
    ELSE IF d.month \notin 1..12 THEN "Invalid month"
    ELSE IF InGap(d) THEN " does not exist"
    ELSE IF d.day \notin 1..RefMonthLen(d.year, d.month) THEN ": Invalid day"
    ELSE "ok"

\* the outcome a call returned
Outcome(r) == IF r.kind = "err" THEN r.msg ELSE r.kind

\* C4: is_valid returns, for every (year, month, day), exactly the outcome the
\* precedence year 0 > month > reform gap > day > success gives.
C4_Precedence ==
    op = "is_valid" => Outcome(res) = ExpectedOutcome(first)

\* a date fails is_valid: the call does not return Ok
Fails(d) == is_valid(d, overflow_checks).kind # "ok"

\* C5: days_between_dates returns an error exactly when one of the dates fails
\* is_valid: the first date's error when the first fails, else the last date's;
\* and a call with a year 0 returns an error.
C5_ErrorIffInvalid ==
    op = "days_between_dates"
    => /\ res.kind = "err" <=> (Fails(first) \/ Fails(last))
       /\ Fails(first) => res = is_valid(first, overflow_checks)
       /\ (~Fails(first) /\ Fails(last)) => res = is_valid(last, overflow_checks)
       /\ (first.year = 0 \/ last.year = 0) => res.kind = "err"

\* C6: is_leap(year) agrees with the hybrid rule for every non-zero year:
\* Julian (divisible by 4) below 1582 on the shifted year line, Gregorian from
\* 1582 on.
C6_LeapRule ==
    (op = "is_leap" /\ year # 0)
    => (res.kind = "bool" /\ res.flag = RefLeap(year))

C6_Witness ==
    /\ op = "is_leap" /\ res.kind = "bool"
    /\ \/ year = -1 /\ res.flag
       \/ year = 100 /\ res.flag
       \/ year = 2100 /\ ~res.flag

\* C7: day_of_year is the 1-based position of the date among the existing
\* dates of its year, and the last date of the year has ordinal year_days(y).
C7_Ordinal ==
    (op = "day_of_year" /\ Exists(first))
    => /\ res.kind = "ok"
       /\ res.val = TrueOrdinal(first)
       /\ (first.month = 12 /\ first.day = 31) => res.val = year_days(first.year)

\* C8: from every valid date of a year >= 1583 to the same month and day 400
\* years later there are 146097 days; from 1582-01-01 to 1982-01-01, 146087.
C8_Cycle400 ==
    op = "days_between_dates"
    => /\ (/\ first.year >= 1583
           /\ is_valid(first, overflow_checks).kind = "ok"
           /\ last = Plus400(first))
          => (res.kind = "ok" /\ res.val = 146097)
       /\ (first = Date(1582, 1, 1) /\ last = Date(1982, 1, 1))
          => (res.kind = "ok" /\ res.val = 146087)

C8_Witness ==
    /\ op = "days_between_dates"
    /\ first = Date(1584, 2, 29) /\ last = Date(1984, 2, 29)
    /\ res.kind = "ok" /\ res.val = 146097

\* the sum of year_days(y) over lo <= y < hi
RECURSIVE SumYearDays(_, _)
SumYearDays(lo, hi) ==
    IF lo >= hi THEN 0
    ELSE IF hi - lo = 1 THEN year_days(lo)
    ELSE LET mid == lo + (hi - lo) \div 2
         IN  SumYearDays(lo, mid) + SumYearDays(mid, hi)

EarlierYear == IF first.year > last.year THEN last.year ELSE first.year
LaterYear == IF first.year > last.year THEN first.year ELSE last.year

\* the result days_between_dates builds from the year sum and the two ordinals
ResultFromSum ==
    res.kind = "ok"
    => res.val = (IF first.year > last.year THEN -days ELSE days)
                 - day_of_year(first, overflow_checks).val
                 + day_of_year(last, overflow_checks).val

\* C9 as stated: the year sum of days_between_dates is the sum of year_days(y)
\* over the years strictly between the two dates' years, so it is 0 for dates
\* of the same year or of adjacent years.
C9_SumStrictlyBetween ==
    (op = "days_between_dates" /\ BothValid)
    => /\ days = SumYearDays(EarlierYear + 1, LaterYear)
       /\ LaterYear - EarlierYear <= 1 => days = 0
       /\ ResultFromSum

\* C9 as amended: the year sum of days_between_dates is the sum of
\* year_days(y) over earlier year <= y < later year (the earlier year included,
\* the later one excluded): 0 for dates of the same year, year_days(earlier
\* year) for adjacent years; a returned number is yearSum - ordinal(first) +
\* ordinal(last) when first.year <= last.year and -yearSum - ordinal(first) +
\* ordinal(last) otherwise.
C9_SumFromEarlierYear ==
    (op = "days_between_dates" /\ BothValid)
    => /\ days = SumYearDays(EarlierYear, LaterYear)
       /\ LaterYear = EarlierYear => days = 0
       /\ LaterYear = EarlierYear + 1 => days = year_days(EarlierYear)
       /\ ResultFromSum

C9_Witness ==
    /\ op = "days_between_dates"
    /\ first = Date(1981, 1, 1) /\ last = Date(1980, 1, 1)
    /\ days = 366 /\ res.kind = "ok" /\ res.val = -366

\* C10: on valid input day_of_year and days_between_dates return an integer,
\* no intermediate value leaving the range of its integer type.
C10_NoOverflow ==
    (op \in {"day_of_year", "days_between_dates"} /\ BothValid)
    => (res.kind = "ok" /\ ~res.wrapped)

====
